---- MODULE Spec2Model ----
(***************************************************************************)
(* The multipart upload coordinator of the file service: the request       *)
(* handlers of internal/fileservice/handlers/files.go over the two stores  *)
(* of internal/fileservice/storage (the files and chunks tables of         *)
(* DynamoDB, and the S3 bucket).                                           *)
(*                                                                         *)
(* Every request runs in a process slot.  A handler is cut into one action *)
(* per store call: the steps between two store calls touch only the        *)
(* handler's locals.  Every store call may fail (ok = FALSE).              *)
(*                                                                         *)
(* Sizes are counted in GiB, so that the 5 GiB threshold and chunk size    *)
(* are the number 5.                                                       *)
(***************************************************************************)
EXTENDS Integers, Sequences, FiniteSets, TLC

\* ------------------------------------------------------------------ bounds
MaxFiles == 1        \* fileIDs that uuid.New() hands out
MaxChunkNo == 2      \* chunk numbers a chunk report may name
NumProcs == 2        \* requests in flight at once
MaxPlanSize == 12    \* the largest declared size (GiB) of the planning specification
Int64Bits == 8       \* the width of an int64, narrowed: sizes are counted in GiB
MaxUsers == 3        \* the userIDs uuid.New() can produce
MaxValidateSize == 52   \* the largest size (GiB) handed to ValidateFileSize

\* --------------------------------------------------------- program constants
multipartThreshold == 5   \* 5 GiB
chunkSizeConst == 5       \* 5 GiB per chunk

MaxFileSize == 50         \* 50 GiB

StatusOK == 200
StatusBadRequest == 400
StatusNotFound == 404
StatusInternalServerError == 500
StatusTooManyRequests == 429
StatusCreated == 201
StatusConflict == 409
burst == 5               \* DefaultRateLimit: the burst b of every limiter

FileIDs == 1..MaxFiles
Procs == 1..NumProcs
ChunkNos == 1..MaxChunkNo
Filenames == {"video.mp4"}
\* the declared sizes of upload requests: <<>> is an absent size
Sizes == {<<>>, <<7>>}
\* the status of a chunk report: "pending" stands for any status the handler rejects
ReqStatuses == {"uploaded", "failed", "pending"}
\* the declared sizes of the upload specification: one chunk, and two chunks
UploadSizes == {<<5>>, <<7>>}
\* the sizes handed to ValidateFileSize: absent, and -1..MaxValidateSize GiB
ValidateSizes == {<<>>} \cup {<<s>> : s \in (-1)..MaxValidateSize}
\* the declared sizes of the planning specification: absent, and 0..MaxPlanSize GiB
PlanSizes == {<<>>} \cup {<<s>> : s \in 0..MaxPlanSize}
\* the etag S3 returns for part chunkNumber
ETagOf(chunkNumber) == <<"etag", chunkNumber>>
NoETag == <<>>
\* the etag of a report of chunk chunkNumber: absent, or the one S3 returned
ReqETags(chunkNumber) == {NoETag, ETagOf(chunkNumber)}

VARIABLES
    metadata,   \* table vibe-drop-files: fileID -> FileMetadata item
    chunks,     \* table vibe-drop-chunks: <<fileID, chunkNumber>> -> FileChunk item
    objects,    \* the S3 keys under which an object exists
    uploads,    \* the S3 multipart uploads: uploadID -> [Key, State]
    putURLs,    \* the S3 keys a presigned whole-object PUT URL was returned for
    issued,     \* the fileIDs uuid.New() has returned
    proc,       \* the requests in flight: slot -> the handler's position and locals
    ips,        \* IPRateLimiter.ips: client address -> the limiter stored for it
    limiters,   \* the rate.Limiter objects created: limiter -> [ip, tokens, allowed]
    rl,         \* the requests in the RateLimit middleware: slot -> position and locals
    users,      \* table vibe-drop-users: userID -> User item
    reg         \* the registrations in flight: slot -> position and locals

vars == <<metadata, chunks, objects, uploads, putURLs, issued, proc,
          ips, limiters, rl, users, reg>>

\* the state of the file handlers
fileVars == <<metadata, chunks, objects, uploads, putURLs, issued, proc>>

\* the state of the rate limiter and of the registration
otherVars == <<ips, limiters, rl, users, reg>>

\* ------------------------------------------------------------------ records
Nil == <<>>

\* fmt.Sprintf("%s-%s", fileID, filename)
S3KeyOf(fileID, filename) == [FileID |-> fileID, Filename |-> filename]

Idle ==
    [op |-> "idle", pc |-> "idle", fileID |-> 0, chunkNumber |-> 0,
     reqStatus |-> "", md |-> Nil, chunks |-> <<>>, size |-> Nil,
     code |-> 0, msg |-> "", body |-> Nil]

\* a slot of the RateLimit middleware that serves no request
RLIdle == [pc |-> "idle", ip |-> "", limiter |-> 0, code |-> 0]

\* a slot of RegisterHandler that serves no request
RegIdle == [pc |-> "idle", email |-> "", code |-> 0]

\* the handler of slot p has written its response
Done(p) == proc[p].pc = "done"

\* a new request takes the first free slot
Free(p) == proc[p].pc = "idle" /\ \A q \in Procs : q < p => proc[q].pc # "idle"

\* ------------------------------------------------------- the DynamoDB tables
\* PutItem with no condition: the item replaces whatever the key held
PutItem(table, key, item) == (key :> item) @@ table

\* DeleteItem: the key holds nothing afterwards
DeleteItem(table, key) == [k \in DOMAIN table \ {key} |-> table[k]]

\* a FileChunk as attributevalue.UnmarshalMap reads an item that has only its key
ZeroChunk(fileID, chunkNumber) ==
    [FileID |-> fileID, ChunkNumber |-> chunkNumber, Size |-> 0, ETag |-> NoETag,
     Status |-> "", UploadedAt |-> "", S3PartNumber |-> 0]

\* mutant of UpdateChunkStatus: a chunk that is uploaded stays uploaded
UpdateChunkStatus_KeepUploaded(table, fileID, chunkNumber, status, etag) ==
    LET key == <<fileID, chunkNumber>>
        old == IF key \in DOMAIN table THEN table[key]
               ELSE ZeroChunk(fileID, chunkNumber)
        set == IF old.Status = "uploaded" THEN old ELSE [old EXCEPT !.Status = status]
        new == IF status = "uploaded" /\ etag # NoETag
               THEN [set EXCEPT !.ETag = etag, !.UploadedAt = "now"]
               ELSE set
    IN  PutItem(table, key, new)

\* mutant of UpdateChunkStatus: a report of uploaded for a chunk that is uploaded
\* already is taken for a conflict and the chunk marked failed
UpdateChunkStatus_RejectRepeat(table, fileID, chunkNumber, status, etag) ==
    LET key == <<fileID, chunkNumber>>
        old == IF key \in DOMAIN table THEN table[key]
               ELSE ZeroChunk(fileID, chunkNumber)
        set == IF old.Status = "uploaded" /\ status = "uploaded"
               THEN [old EXCEPT !.Status = "failed"]
               ELSE [old EXCEPT !.Status = status]
        new == IF status = "uploaded" /\ etag # NoETag
               THEN [set EXCEPT !.ETag = etag, !.UploadedAt = "now"]
               ELSE set
    IN  PutItem(table, key, new)

\* UpdateItem "SET #status = :status [, etag = :etag, uploadedAt = :uploadedAt]" with
\* no condition expression: the named attributes are set and the others kept; an
\* item that does not exist is created with its key and the named attributes
UpdateChunkStatus(table, fileID, chunkNumber, status, etag) ==
    LET key == <<fileID, chunkNumber>>
        old == IF key \in DOMAIN table THEN table[key]
               ELSE ZeroChunk(fileID, chunkNumber)
        set == [old EXCEPT !.Status = status]
        new == IF status = "uploaded" /\ etag # NoETag
               THEN [set EXCEPT !.ETag = etag, !.UploadedAt = "now"]
               ELSE set
    IN  PutItem(table, key, new)

RECURSIVE Ascending(_)
Ascending(S) ==
    IF S = {} THEN <<>>
    ELSE LET m == CHOOSE x \in S : \A y \in S : x <= y
         IN  <<m>> \o Ascending(S \ {m})

\* Query on the partition key fileID: the file's items in sort-key (chunkNumber) order
GetFileChunks(table, fileID) ==
    LET nos == Ascending({k[2] : k \in {q \in DOMAIN table : q[1] = fileID}})
    IN  [i \in 1..Len(nos) |-> table[<<fileID, nos[i]>>]]

\* complete if there are chunks and all of them are uploaded
CheckUploadComplete(table, fileID) ==
    LET cs == GetFileChunks(table, fileID)
    IN  [complete |-> Len(cs) > 0 /\ \A i \in 1..Len(cs) : cs[i].Status = "uploaded",
         chunks |-> cs]

\* ------------------------------------------------------------------ planning
\* mutant of shouldUseMultipart: a size equal to the threshold is a single upload
shouldUseMultipart_Above(size) == size # Nil /\ size[1] > multipartThreshold

shouldUseMultipart(size) == size # Nil /\ size[1] >= multipartThreshold

\* int((*req.Size + chunkSize - 1) / chunkSize)
\* the largest and the smallest int64
MaxInt64 == 2^(Int64Bits - 1) - 1

MinInt64 == -(2^(Int64Bits - 1))

\* the int64 that a sum or difference x of two int64 wraps to
WrapInt64(x) == ((x - MinInt64) % 2^Int64Bits) + MinInt64

\* the quotient a / b of Go, b > 0: truncated toward zero
Quot(a, b) == IF a >= 0 THEN a \div b ELSE -((-a) \div b)

TotalChunks(size, chunkSize) == Quot(WrapInt64(size + chunkSize - 1), chunkSize)

\* the size of chunk i (0-based) of totalChunks: the last may be smaller
CurrentChunkSize(i, totalChunks, chunkSize, totalSize) ==
    IF i = totalChunks - 1 THEN totalSize - i * chunkSize ELSE chunkSize

ChunkRecord(fileID, partNumber, size) ==
    [FileID |-> fileID, ChunkNumber |-> partNumber, Size |-> size, ETag |-> NoETag,
     Status |-> "pending", UploadedAt |-> "", S3PartNumber |-> partNumber]

MultipartMetadata(fileID, filename, totalSize, s3Key, uploadID, chunkSize, totalChunks) ==
    [FileID |-> fileID, Filename |-> filename, TotalSize |-> totalSize,
     Status |-> "uploading", UploadType |-> "multipart", UserID |-> "default-user",
     S3Key |-> s3Key, S3UploadID |-> <<uploadID>>, ChunkSize |-> <<chunkSize>>,
     TotalChunks |-> <<totalChunks>>, CompletedAt |-> Nil]

SingleMetadata(fileID, filename, size, s3Key) ==
    [FileID |-> fileID, Filename |-> filename,
     TotalSize |-> IF size # Nil THEN size[1] ELSE 0,
     Status |-> "uploading", UploadType |-> "single", UserID |-> "default-user",
     S3Key |-> s3Key, S3UploadID |-> Nil, ChunkSize |-> Nil,
     TotalChunks |-> Nil, CompletedAt |-> Nil]

\* uuid.New(): an id that was never returned before
NewUUID == CHOOSE f \in FileIDs \ issued : \A g \in FileIDs \ issued : f <= g

\* the ids a call of uuid.New() may return: the new id, while there is one
FreshUUIDs == IF FileIDs \ issued = {} THEN {} ELSE {NewUUID}

\* the response is written: the handler returns and its locals are gone
Respond(p, op, fileID, body) ==
    [Idle EXCEPT !.op = op, !.fileID = fileID, !.pc = "done",
                 !.code = StatusOK, !.body = body]

\* http.Error(w, msg, code): the handler returns with an error response
Error(p, op, fileID, msg, code) ==
    [Idle EXCEPT !.op = op, !.fileID = fileID, !.pc = "done",
                 !.code = code, !.msg = msg]

\* createChunksAndRecords: the ChunkURL list of parts 1..n
ChunkURLs(uploadID, s3Key, n, totalChunks, chunkSize, totalSize) ==
    [i \in 1..n |->
        [ChunkNumber |-> i,
         URL |-> [Key |-> s3Key, UploadID |-> uploadID, PartNumber |-> i],
         Size |-> CurrentChunkSize(i - 1, totalChunks, chunkSize, totalSize)]]

\* createChunksAndRecords: the chunks table after SaveFileChunk of parts 1..n, of
\* which the writes of the parts in lost failed (the failure is only logged)
SaveFileChunks(table, fileID, n, lost, totalChunks, chunkSize, totalSize) ==
    LET new == {<<fileID, i>> : i \in (1..n) \ lost}
    IN  [k \in DOMAIN table \cup new |->
            IF k \in new
            THEN ChunkRecord(fileID, k[2],
                     CurrentChunkSize(k[2] - 1, totalChunks, chunkSize, totalSize))
            ELSE table[k]]

\* ------------------------------------------------------------------ Init
Init ==
    /\ metadata = <<>>
    /\ chunks = <<>>
    /\ objects = {}
    /\ uploads = <<>>
    /\ putURLs = {}
    /\ issued = {}
    /\ proc = [p \in Procs |-> Idle]
    /\ ips = <<>>
    /\ limiters = <<>>
    /\ rl = [p \in Procs |-> RLIdle]
    /\ users = <<>>
    /\ reg = [p \in Procs |-> RegIdle]

\* --------------------------------------------- POST /files/upload-url (plan)
\* The fileID of a plan is not known to any other request before the plan has
\* answered, and its writes go to keys of that fileID only, one item each: the
\* handler is one action.

\* mutant of handleMultipartUpload: the metadata is saved before the multipart
\* upload is initiated
handleMultipartUpload_SaveFirst(p, ids, filename, size, initOK, urlFailAt, lost, saveOK) ==
    LET chunkSize == chunkSizeConst
        totalChunks == TotalChunks(size[1], chunkSize)
        written == IF urlFailAt = 0 THEN totalChunks ELSE urlFailAt - 1
    IN  IF ~initOK
        THEN \E fileID \in ids :
             /\ proc' = [proc EXCEPT ![p] =
                    [Error(p, "plan", 0, "failed to initiate multipart upload",
                           StatusInternalServerError)
                     EXCEPT !.size = size]]
             /\ issued' = issued \cup {fileID}
             /\ metadata' = PutItem(metadata, fileID,
                                MultipartMetadata(fileID, filename, size[1],
                                                  S3KeyOf(fileID, filename), fileID,
                                                  chunkSize, totalChunks))
             /\ UNCHANGED <<chunks, objects, uploads, putURLs>>
        ELSE \E fileID \in ids :
             LET s3Key == S3KeyOf(fileID, filename)
                 uploadID == fileID
             IN  /\ urlFailAt \in 0..totalChunks
                 /\ lost \subseteq 1..written
                 /\ issued' = issued \cup {fileID}
                 /\ uploads' = PutItem(uploads, uploadID,
                                       [Key |-> s3Key, State |-> "open"])
                 /\ chunks' = SaveFileChunks(chunks, fileID, written, lost, totalChunks,
                                             chunkSize, size[1])
                 /\ IF urlFailAt # 0
                    THEN /\ proc' = [proc EXCEPT ![p] =
                                Error(p, "plan", 0, "failed to generate chunk upload URL",
                                      StatusInternalServerError)]
                         /\ UNCHANGED metadata
                    ELSE /\ proc' = [proc EXCEPT ![p] =
                                [Respond(p, "plan", fileID,
                                    <<[FileID |-> fileID, UploadType |-> "multipart",
                                       URL |-> Nil,
                                       Chunks |-> ChunkURLs(uploadID, s3Key, totalChunks,
                                                      totalChunks, chunkSize, size[1])]>>)
                                 EXCEPT !.size = size]]
                         /\ metadata' =
                              IF saveOK
                              THEN PutItem(metadata, fileID,
                                       MultipartMetadata(fileID, filename, size[1], s3Key,
                                                         uploadID, chunkSize, totalChunks))
                              ELSE metadata
                 /\ UNCHANGED <<objects, putURLs>>

\* handleMultipartUpload. ids: the ids uuid.New() may return; initOK:
\* InitiateMultipartUpload succeeded; urlFailAt: the part whose
\* GenerateMultipartUploadURL failed (0: none); lost: the parts whose SaveFileChunk
\* failed; saveOK: SaveFileMetadata succeeded. The last two failures are only
\* logged. The multipart upload is named by the fileID of its key.
handleMultipartUpload(p, ids, filename, size, initOK, urlFailAt, lost, saveOK) ==
    LET chunkSize == chunkSizeConst
        totalChunks == TotalChunks(size[1], chunkSize)
        written == IF urlFailAt = 0 THEN totalChunks ELSE urlFailAt - 1
    IN  IF ~initOK
        THEN /\ proc' = [proc EXCEPT ![p] =
                    [Error(p, "plan", 0, "failed to initiate multipart upload",
                           StatusInternalServerError)
                     EXCEPT !.size = size]]
             /\ UNCHANGED <<metadata, chunks, objects, uploads, putURLs, issued>>
        ELSE IF totalChunks < 0
        THEN \* make([]ChunkURL, totalChunks) panics after the upload was initiated;
             \* net/http recovers the panic and closes the connection: no response
             \E fileID \in ids :
                 /\ issued' = issued \cup {fileID}
                 /\ uploads' = PutItem(uploads, fileID,
                                       [Key |-> S3KeyOf(fileID, filename), State |-> "open"])
                 /\ proc' = [proc EXCEPT ![p] =
                        [Error(p, "plan", 0, "panic: makeslice: len out of range", 0)
                         EXCEPT !.size = size]]
                 /\ UNCHANGED <<metadata, chunks, objects, putURLs>>
        ELSE \E fileID \in ids :
             LET s3Key == S3KeyOf(fileID, filename)
                 uploadID == fileID
             IN  /\ urlFailAt \in 0..totalChunks
                 /\ lost \subseteq 1..written
                 /\ issued' = issued \cup {fileID}
                 /\ uploads' = PutItem(uploads, uploadID,
                                       [Key |-> s3Key, State |-> "open"])
                 /\ chunks' = SaveFileChunks(chunks, fileID, written, lost, totalChunks,
                                             chunkSize, size[1])
                 /\ IF urlFailAt # 0
                    THEN /\ proc' = [proc EXCEPT ![p] =
                                Error(p, "plan", 0, "failed to generate chunk upload URL",
                                      StatusInternalServerError)]
                         /\ UNCHANGED metadata
                    ELSE /\ proc' = [proc EXCEPT ![p] =
                                [Respond(p, "plan", fileID,
                                    <<[FileID |-> fileID, UploadType |-> "multipart",
                                       URL |-> Nil,
                                       Chunks |-> ChunkURLs(uploadID, s3Key, totalChunks,
                                                      totalChunks, chunkSize, size[1])]>>)
                                 EXCEPT !.size = size]]
                         /\ metadata' =
                              IF saveOK
                              THEN PutItem(metadata, fileID,
                                       MultipartMetadata(fileID, filename, size[1], s3Key,
                                                         uploadID, chunkSize, totalChunks))
                              ELSE metadata
                 /\ UNCHANGED <<objects, putURLs>>

\* mutant of handleSingleUpload: a failure of SaveFileMetadata is returned and the
\* URL is not handed out
handleSingleUpload_FailOnSaveError(p, ids, filename, size, urlOK, saveOK) ==
    IF ~urlOK
    THEN /\ proc' = [proc EXCEPT ![p] =
                Error(p, "plan", 0, "failed to generate upload URL",
                      StatusInternalServerError)]
         /\ UNCHANGED <<metadata, chunks, objects, uploads, putURLs, issued>>
    ELSE \E fileID \in ids :
         LET s3Key == S3KeyOf(fileID, filename)
         IN  /\ issued' = issued \cup {fileID}
             /\ putURLs' = IF saveOK THEN putURLs \cup {s3Key} ELSE putURLs
             /\ proc' = [proc EXCEPT ![p] =
                    IF saveOK
                    THEN [Respond(p, "plan", fileID,
                             <<[FileID |-> fileID, UploadType |-> "single",
                                URL |-> <<s3Key>>, Chunks |-> <<>>]>>)
                          EXCEPT !.size = size]
                    ELSE Error(p, "plan", 0, "failed to save file metadata",
                               StatusInternalServerError)]
             /\ metadata' =
                  IF saveOK
                  THEN PutItem(metadata, fileID,
                           SingleMetadata(fileID, filename, size, s3Key))
                  ELSE metadata
             /\ UNCHANGED <<chunks, objects, uploads>>

\* handleSingleUpload. ids: the ids uuid.New() may return; urlOK: GenerateUploadURL
\* succeeded; saveOK: SaveFileMetadata succeeded (its failure is only logged).
handleSingleUpload(p, ids, filename, size, urlOK, saveOK) ==
    IF ~urlOK
    THEN /\ proc' = [proc EXCEPT ![p] =
                Error(p, "plan", 0, "failed to generate upload URL",
                      StatusInternalServerError)]
         /\ UNCHANGED <<metadata, chunks, objects, uploads, putURLs, issued>>
    ELSE \E fileID \in ids :
         LET s3Key == S3KeyOf(fileID, filename)
         IN  /\ issued' = issued \cup {fileID}
             /\ putURLs' = putURLs \cup {s3Key}
             /\ proc' = [proc EXCEPT ![p] =
                    [Respond(p, "plan", fileID,
                        <<[FileID |-> fileID, UploadType |-> "single",
                           URL |-> <<s3Key>>, Chunks |-> <<>>]>>)
                     EXCEPT !.size = size]]
             /\ metadata' =
                  IF saveOK
                  THEN PutItem(metadata, fileID,
                           SingleMetadata(fileID, filename, size, s3Key))
                  ELSE metadata
             /\ UNCHANGED <<chunks, objects, uploads>>

\* parseUploadRequest (the filename is required) and the choice of the plan, for
\* a request whose declared size is one of sizes, uuid.New() returning one of ids.
\* oks: the outcomes a store call may have (TRUE: success).
PlanRequest(p, oks, sizes, ids) ==
    /\ Free(p)
    /\ \E filename \in Filenames \cup {""}, size \in sizes :
          IF filename = ""
          THEN /\ proc' = [proc EXCEPT ![p] =
                      Error(p, "plan", 0, "filename is required", StatusBadRequest)]
               /\ UNCHANGED <<metadata, chunks, objects, uploads, putURLs, issued>>
          ELSE IF shouldUseMultipart(size)
          THEN \E initOK \in oks, saveOK \in oks :
                  LET parts == 1..TotalChunks(size[1], chunkSizeConst)
                  IN  \E urlFailAt \in {0} \cup {n \in parts : FALSE \in oks},
                         lost \in (IF FALSE \in oks THEN SUBSET parts ELSE {{}}) :
                          handleMultipartUpload(p, ids, filename, size, initOK,
                                                urlFailAt, lost, saveOK)
          ELSE \E urlOK \in oks, saveOK \in oks :
                  handleSingleUpload(p, ids, filename, size, urlOK, saveOK)
    /\ UNCHANGED otherVars

\* uuid.New() returns an id that no earlier call returned
GenerateUploadURLHandler(p, oks) == PlanRequest(p, oks, Sizes, FreshUUIDs)

\* the client PUTs the bytes to a presigned whole-object URL
ClientPutObject(key) ==
    /\ key \in putURLs
    /\ objects' = objects \cup {key}
    /\ UNCHANGED <<metadata, chunks, uploads, putURLs, issued, proc>>
    /\ UNCHANGED otherVars

\* the response has been written and the request is over
Return(p) ==
    /\ proc[p].pc = "done"
    /\ proc' = [proc EXCEPT ![p] = Idle]
    /\ UNCHANGED <<metadata, chunks, objects, uploads, putURLs, issued>>
    /\ UNCHANGED otherVars

\* mutant of ReportUpdate: the status of the request is not validated
ReportUpdate_NoValidation(p, fileID, chunkNumber, status, etag, ok) ==
    /\ Free(p)
    /\ IF ~ok
       THEN /\ proc' = [proc EXCEPT ![p] =
                   Error(p, "report", fileID, "Failed to update chunk status",
                         StatusInternalServerError)]
            /\ chunks' = chunks
       ELSE /\ chunks' = UpdateChunkStatus(chunks, fileID, chunkNumber, status, etag)
            /\ proc' = [proc EXCEPT ![p] =
                   [Idle EXCEPT !.op = "report", !.pc = "rep_check", !.fileID = fileID,
                                !.chunkNumber = chunkNumber, !.reqStatus = status]]
    /\ UNCHANGED <<metadata, objects, uploads, putURLs, issued>>
    /\ UNCHANGED otherVars

\* ----------------- POST /files/{fileId}/chunks/{chunkNumber}/complete (reportChunk)
\* ChunkCompletionHandler up to and with UpdateChunkStatus: the status must be
\* "uploaded" or "failed"
ReportUpdate(p, fileID, chunkNumber, status, etag, ok) ==
    /\ Free(p)
    /\ IF status # "uploaded" /\ status # "failed"
       THEN /\ proc' = [proc EXCEPT ![p] =
                   Error(p, "report", fileID, "Status must be 'uploaded' or 'failed'",
                         StatusBadRequest)]
            /\ chunks' = chunks
       ELSE IF ~ok
       THEN /\ proc' = [proc EXCEPT ![p] =
                   Error(p, "report", fileID, "Failed to update chunk status",
                         StatusInternalServerError)]
            /\ chunks' = chunks
       ELSE /\ chunks' = UpdateChunkStatus(chunks, fileID, chunkNumber, status, etag)
            /\ proc' = [proc EXCEPT ![p] =
                   [Idle EXCEPT !.op = "report", !.pc = "rep_check", !.fileID = fileID,
                                !.chunkNumber = chunkNumber, !.reqStatus = status]]
    /\ UNCHANGED <<metadata, objects, uploads, putURLs, issued>>
    /\ UNCHANGED otherVars

\* mutant of ReportCheck: the report that completes the chunks marks the file completed
ReportCheck_AutoFinalize(p, ok) ==
    /\ proc[p].op = "report"
    /\ proc[p].pc = "rep_check"
    /\ LET res == CheckUploadComplete(chunks, proc[p].fileID)
       IN  /\ proc' = [proc EXCEPT ![p] =
                  IF ~ok
                  THEN Error(p, "report", proc[p].fileID, "Failed to check upload status",
                             StatusInternalServerError)
                  ELSE Respond(p, "report", proc[p].fileID,
                           <<[chunk_number |-> proc[p].chunkNumber,
                              status |-> proc[p].reqStatus,
                              upload_complete |-> res.complete,
                              total_chunks |-> IF res.complete THEN Len(res.chunks) ELSE 0]>>)]
           /\ metadata' = IF ok /\ res.complete /\ proc[p].fileID \in DOMAIN metadata
                          THEN [metadata EXCEPT ![proc[p].fileID].Status = "completed"]
                          ELSE metadata
    /\ UNCHANGED <<chunks, objects, uploads, putURLs, issued>>
    /\ UNCHANGED otherVars

\* mutant of ReportCheck: the completeness is the one of the table before the
\* handler wrote its chunk
ReportCheck_BeforeOwnWrite(p, ok) ==
    /\ proc[p].op = "report"
    /\ proc[p].pc = "rep_check"
    /\ LET own == <<proc[p].fileID, proc[p].chunkNumber>>
           before == IF own \in DOMAIN chunks
                     THEN [chunks EXCEPT ![own].Status = "pending"]
                     ELSE chunks
           res == CheckUploadComplete(before, proc[p].fileID)
       IN  proc' = [proc EXCEPT ![p] =
               IF ~ok
               THEN Error(p, "report", proc[p].fileID, "Failed to check upload status",
                          StatusInternalServerError)
               ELSE Respond(p, "report", proc[p].fileID,
                        <<[chunk_number |-> proc[p].chunkNumber,
                           status |-> proc[p].reqStatus,
                           upload_complete |-> res.complete,
                           total_chunks |-> IF res.complete THEN Len(res.chunks) ELSE 0]>>)]
    /\ UNCHANGED <<metadata, chunks, objects, uploads, putURLs, issued>>
    /\ UNCHANGED otherVars

\* ChunkCompletionHandler from CheckUploadComplete to the response
ReportCheck(p, ok) ==
    /\ proc[p].op = "report"
    /\ proc[p].pc = "rep_check"
    /\ LET res == CheckUploadComplete(chunks, proc[p].fileID)
       IN  proc' = [proc EXCEPT ![p] =
               IF ~ok
               THEN Error(p, "report", proc[p].fileID, "Failed to check upload status",
                          StatusInternalServerError)
               ELSE Respond(p, "report", proc[p].fileID,
                        <<[chunk_number |-> proc[p].chunkNumber,
                           status |-> proc[p].reqStatus,
                           upload_complete |-> res.complete,
                           total_chunks |-> IF res.complete THEN Len(res.chunks) ELSE 0]>>)]
    /\ UNCHANGED <<metadata, chunks, objects, uploads, putURLs, issued>>
    /\ UNCHANGED otherVars

\* ChunkCompletionHandler for the requests whose status is one of statuses
ReportRequest(p, oks, statuses) ==
    \/ \E fileID \in issued, chunkNumber \in ChunkNos, status \in statuses :
          \E etag \in ReqETags(chunkNumber), ok \in oks :
              ReportUpdate(p, fileID, chunkNumber, status, etag, ok)
    \/ \E ok \in oks : ReportCheck(p, ok)

ChunkCompletionHandler(p, oks) == ReportRequest(p, oks, ReqStatuses)

\* ------------------------------------------------------------- the S3 bucket
\* S3Client.CompleteMultipartUpload: the bucket merges the parts of an open
\* multipart upload into the object under its key, and refuses an upload that
\* is not open (never initiated, or merged already); the refusal is returned
CompleteMultipartUpload(ups, objs, uploadInfo, parts, ok) ==
    IF /\ ok
       /\ uploadInfo.UploadID \in DOMAIN ups
       /\ ups[uploadInfo.UploadID].State = "open"
       /\ ups[uploadInfo.UploadID].Key = uploadInfo.Key
    THEN [err |-> FALSE,
          uploads |-> [ups EXCEPT ![uploadInfo.UploadID].State = "completed"],
          objects |-> objs \cup {uploadInfo.Key}]
    ELSE [err |-> TRUE, uploads |-> ups, objects |-> objs]

\* S3Client.DeleteObject: the key holds no object afterwards
DeleteObject(objs, s3Key) == objs \ {s3Key}

\* -------------------------------------- POST /files/{fileId}/complete (finalize)
\* CompleteMultipartUploadHandler up to the multipart check
FinalizeGet(p, fileID, ok) ==
    /\ Free(p)
    /\ proc' = [proc EXCEPT ![p] =
           IF ~ok \/ fileID \notin DOMAIN metadata
           THEN Error(p, "finalize", fileID, "File not found", StatusNotFound)
           ELSE IF \/ metadata[fileID].UploadType # "multipart"
                   \/ metadata[fileID].S3UploadID = Nil
           THEN Error(p, "finalize", fileID, "Not a multipart upload", StatusBadRequest)
           ELSE [Idle EXCEPT !.op = "finalize", !.pc = "fin_check", !.fileID = fileID,
                             !.md = <<metadata[fileID]>>]]
    /\ UNCHANGED <<metadata, chunks, objects, uploads, putURLs, issued>>
    /\ UNCHANGED otherVars

\* mutant of FinalizeCheck: the merge goes ahead whether the chunks are complete or not
FinalizeCheck_NoCompleteCheck(p, ok) ==
    /\ proc[p].op = "finalize"
    /\ proc[p].pc = "fin_check"
    /\ LET res == CheckUploadComplete(chunks, proc[p].fileID)
       IN  proc' = [proc EXCEPT ![p] =
               IF ~ok
               THEN Error(p, "finalize", proc[p].fileID, "Failed to check upload status",
                          StatusInternalServerError)
               ELSE [proc[p] EXCEPT !.pc = "fin_merge", !.chunks = res.chunks]]
    /\ UNCHANGED <<metadata, chunks, objects, uploads, putURLs, issued>>
    /\ UNCHANGED otherVars

\* CheckUploadComplete: all chunks must be uploaded
FinalizeCheck(p, ok) ==
    /\ proc[p].op = "finalize"
    /\ proc[p].pc = "fin_check"
    /\ LET res == CheckUploadComplete(chunks, proc[p].fileID)
       IN  proc' = [proc EXCEPT ![p] =
               IF ~ok
               THEN Error(p, "finalize", proc[p].fileID, "Failed to check upload status",
                          StatusInternalServerError)
               ELSE IF ~res.complete
               THEN Error(p, "finalize", proc[p].fileID, "Not all chunks are uploaded yet",
                          StatusBadRequest)
               ELSE [proc[p] EXCEPT !.pc = "fin_merge", !.chunks = res.chunks]]
    /\ UNCHANGED <<metadata, chunks, objects, uploads, putURLs, issued>>
    /\ UNCHANGED otherVars

\* parts[i] = CompletedPart{PartNumber: chunk.S3PartNumber, ETag: chunk.ETag}
CompletedParts(cs) ==
    [i \in 1..Len(cs) |-> [PartNumber |-> cs[i].S3PartNumber, ETag |-> cs[i].ETag]]

\* mutant of FinalizeMerge: the error of the merge is only logged
FinalizeMerge_IgnoreError(p, ok) ==
    /\ proc[p].op = "finalize"
    /\ proc[p].pc = "fin_merge"
    /\ LET md == proc[p].md[1]
           uploadInfo == [UploadID |-> md.S3UploadID[1], Key |-> md.S3Key]
           res == CompleteMultipartUpload(uploads, objects, uploadInfo,
                                          CompletedParts(proc[p].chunks), ok)
       IN  /\ uploads' = res.uploads
           /\ objects' = res.objects
           /\ proc' = [proc EXCEPT ![p] = [proc[p] EXCEPT !.pc = "fin_save"]]
    /\ UNCHANGED <<metadata, chunks, putURLs, issued>>
    /\ UNCHANGED otherVars

\* mutant of FinalizeMerge: after a failed merge the record the handler read is
\* written back
FinalizeMerge_ResetOnError(p, ok) ==
    /\ proc[p].op = "finalize"
    /\ proc[p].pc = "fin_merge"
    /\ LET md == proc[p].md[1]
           uploadInfo == [UploadID |-> md.S3UploadID[1], Key |-> md.S3Key]
           res == CompleteMultipartUpload(uploads, objects, uploadInfo,
                                          CompletedParts(proc[p].chunks), ok)
       IN  /\ uploads' = res.uploads
           /\ objects' = res.objects
           /\ metadata' = IF res.err THEN PutItem(metadata, md.FileID, md) ELSE metadata
           /\ proc' = [proc EXCEPT ![p] =
                  IF res.err
                  THEN Error(p, "finalize", proc[p].fileID, "Failed to complete upload",
                             StatusInternalServerError)
                  ELSE [proc[p] EXCEPT !.pc = "fin_save"]]
    /\ UNCHANGED <<chunks, putURLs, issued>>
    /\ UNCHANGED otherVars

\* mutant of FinalizeMerge: a failed merge marks the record failed
FinalizeMerge_MarkFailed(p, ok) ==
    /\ proc[p].op = "finalize"
    /\ proc[p].pc = "fin_merge"
    /\ LET md == proc[p].md[1]
           uploadInfo == [UploadID |-> md.S3UploadID[1], Key |-> md.S3Key]
           res == CompleteMultipartUpload(uploads, objects, uploadInfo,
                                          CompletedParts(proc[p].chunks), ok)
       IN  /\ uploads' = res.uploads
           /\ objects' = res.objects
           /\ metadata' = IF res.err
                          THEN PutItem(metadata, md.FileID, [md EXCEPT !.Status = "failed"])
                          ELSE metadata
           /\ proc' = [proc EXCEPT ![p] =
                  IF res.err
                  THEN Error(p, "finalize", proc[p].fileID, "Failed to complete upload",
                             StatusInternalServerError)
                  ELSE [proc[p] EXCEPT !.pc = "fin_save"]]
    /\ UNCHANGED <<chunks, putURLs, issued>>
    /\ UNCHANGED otherVars

\* the merge in S3
FinalizeMerge(p, ok) ==
    /\ proc[p].op = "finalize"
    /\ proc[p].pc = "fin_merge"
    /\ LET md == proc[p].md[1]
           uploadInfo == [UploadID |-> md.S3UploadID[1], Key |-> md.S3Key]
           res == CompleteMultipartUpload(uploads, objects, uploadInfo,
                                          CompletedParts(proc[p].chunks), ok)
       IN  /\ uploads' = res.uploads
           /\ objects' = res.objects
           /\ proc' = [proc EXCEPT ![p] =
                  IF res.err
                  THEN Error(p, "finalize", proc[p].fileID, "Failed to complete upload",
                             StatusInternalServerError)
                  ELSE [proc[p] EXCEPT !.pc = "fin_save"]]
    /\ UNCHANGED <<metadata, chunks, putURLs, issued>>
    /\ UNCHANGED otherVars

\* mutant of FinalizeSave: the completed record is stored under a new key
FinalizeSave_Rekey(p, ok) ==
    /\ proc[p].op = "finalize"
    /\ proc[p].pc = "fin_save"
    /\ LET md == [proc[p].md[1] EXCEPT !.Status = "completed", !.CompletedAt = <<"now">>,
                                       !.S3Key = S3KeyOf(0, proc[p].md[1].Filename)]
       IN  /\ metadata' = IF ok THEN PutItem(metadata, md.FileID, md) ELSE metadata
           /\ proc' = [proc EXCEPT ![p] =
                  Respond(p, "finalize", proc[p].fileID,
                      <<[file_id |-> proc[p].fileID,
                         total_chunks |-> Len(proc[p].chunks)]>>)]
    /\ UNCHANGED <<chunks, objects, uploads, putURLs, issued>>
    /\ UNCHANGED otherVars

\* mutant of FinalizeSave: the completed record drops the id of the merged upload
FinalizeSave_ClearUploadID(p, ok) ==
    /\ proc[p].op = "finalize"
    /\ proc[p].pc = "fin_save"
    /\ LET md == [proc[p].md[1] EXCEPT !.Status = "completed", !.CompletedAt = <<"now">>,
                                       !.S3UploadID = Nil]
       IN  /\ metadata' = IF ok THEN PutItem(metadata, md.FileID, md) ELSE metadata
           /\ proc' = [proc EXCEPT ![p] =
                  Respond(p, "finalize", proc[p].fileID,
                      <<[file_id |-> proc[p].fileID,
                         total_chunks |-> Len(proc[p].chunks)]>>)]
    /\ UNCHANGED <<chunks, objects, uploads, putURLs, issued>>
    /\ UNCHANGED otherVars

\* metadata.Status = "completed", SaveFileMetadata (its failure is only logged)
\* and the response
FinalizeSave(p, ok) ==
    /\ proc[p].op = "finalize"
    /\ proc[p].pc = "fin_save"
    /\ LET md == [proc[p].md[1] EXCEPT !.Status = "completed", !.CompletedAt = <<"now">>]
       IN  /\ metadata' = IF ok THEN PutItem(metadata, md.FileID, md) ELSE metadata
           /\ proc' = [proc EXCEPT ![p] =
                  Respond(p, "finalize", proc[p].fileID,
                      <<[file_id |-> proc[p].fileID,
                         total_chunks |-> Len(proc[p].chunks)]>>)]
    /\ UNCHANGED <<chunks, objects, uploads, putURLs, issued>>
    /\ UNCHANGED otherVars

CompleteMultipartUploadHandler(p, oks) ==
    \/ \E fileID \in issued, ok \in oks : FinalizeGet(p, fileID, ok)
    \/ \E ok \in oks : FinalizeCheck(p, ok)
    \/ \E ok \in oks : FinalizeMerge(p, ok)
    \/ \E ok \in oks : FinalizeSave(p, ok)

\* ------------------------------------------------- DELETE /files/{id} (delete)
\* the metadata is read to find the S3 key
DeleteGet(p, fileID, ok) ==
    /\ Free(p)
    /\ proc' = [proc EXCEPT ![p] =
           IF ~ok \/ fileID \notin DOMAIN metadata
           THEN Error(p, "delete", fileID, "File not found", StatusNotFound)
           ELSE [Idle EXCEPT !.op = "delete", !.pc = "del_s3", !.fileID = fileID,
                             !.md = <<metadata[fileID]>>]]
    /\ UNCHANGED <<metadata, chunks, objects, uploads, putURLs, issued>>
    /\ UNCHANGED otherVars

\* mutant of DeleteS3: the error of DeleteObject is only logged
DeleteS3_IgnoreError(p, ok) ==
    /\ proc[p].op = "delete"
    /\ proc[p].pc = "del_s3"
    /\ objects' = IF ok THEN DeleteObject(objects, proc[p].md[1].S3Key) ELSE objects
    /\ proc' = [proc EXCEPT ![p] = [proc[p] EXCEPT !.pc = "del_meta"]]
    /\ UNCHANGED <<metadata, chunks, uploads, putURLs, issued>>
    /\ UNCHANGED otherVars

\* delete from S3 first
DeleteS3(p, ok) ==
    /\ proc[p].op = "delete"
    /\ proc[p].pc = "del_s3"
    /\ objects' = IF ok THEN DeleteObject(objects, proc[p].md[1].S3Key) ELSE objects
    /\ proc' = [proc EXCEPT ![p] =
           IF ok THEN [proc[p] EXCEPT !.pc = "del_meta"]
           ELSE Error(p, "delete", proc[p].fileID, "Failed to delete file from storage",
                      StatusInternalServerError)]
    /\ UNCHANGED <<metadata, chunks, uploads, putURLs, issued>>
    /\ UNCHANGED otherVars

\* mutant of DeleteMeta: the chunk rows of the file are deleted with its record
DeleteMeta_WithChunks(p, ok) ==
    /\ proc[p].op = "delete"
    /\ proc[p].pc = "del_meta"
    /\ metadata' = IF ok THEN DeleteItem(metadata, proc[p].fileID) ELSE metadata
    /\ chunks' = IF ok
                 THEN [k \in {q \in DOMAIN chunks : q[1] # proc[p].fileID} |-> chunks[k]]
                 ELSE chunks
    /\ proc' = [proc EXCEPT ![p] =
           IF ok THEN Respond(p, "delete", proc[p].fileID, Nil)
           ELSE Error(p, "delete", proc[p].fileID,
                      "File deleted but metadata cleanup failed",
                      StatusInternalServerError)]
    /\ UNCHANGED <<objects, uploads, putURLs, issued>>
    /\ UNCHANGED otherVars

\* delete the metadata only after the S3 deletion succeeded
DeleteMeta(p, ok) ==
    /\ proc[p].op = "delete"
    /\ proc[p].pc = "del_meta"
    /\ metadata' = IF ok THEN DeleteItem(metadata, proc[p].fileID) ELSE metadata
    /\ proc' = [proc EXCEPT ![p] =
           IF ok THEN Respond(p, "delete", proc[p].fileID, Nil)
           ELSE Error(p, "delete", proc[p].fileID,
                      "File deleted but metadata cleanup failed",
                      StatusInternalServerError)]
    /\ UNCHANGED <<chunks, objects, uploads, putURLs, issued>>
    /\ UNCHANGED otherVars

DeleteFileHandler(p, oks) ==
    \/ \E fileID \in issued, ok \in oks : DeleteGet(p, fileID, ok)
    \/ \E ok \in oks : DeleteS3(p, ok)
    \/ \E ok \in oks : DeleteMeta(p, ok)

\* ------------------------------- GET /files/{id}/download-url (download grant)
\* the keys a request may carry beside the fileID of its path: the key of a file
\* of the service, or a key of no file
ReqKeys == {S3KeyOf(f, n) : f \in FileIDs \cup {0}, n \in Filenames}

\* S3Client.GenerateDownloadURL: the presigned GET of the key
GenerateDownloadURL(s3Key) == [Method |-> "GET", Key |-> s3Key]

\* mutant of GenerateDownloadURLHandler: the URL is presigned for the key of the request
GenerateDownloadURLHandler_RequestKey(p, fileID, reqKey, getOK, urlOK) ==
    /\ Free(p)
    /\ proc' = [proc EXCEPT ![p] =
           IF ~getOK \/ fileID \notin DOMAIN metadata
           THEN Error(p, "download", fileID, "File not found", StatusNotFound)
           ELSE IF ~urlOK
           THEN Error(p, "download", fileID, "Failed to generate download URL",
                      StatusInternalServerError)
           ELSE Respond(p, "download", fileID,
                    <<[FileID |-> fileID, URL |-> GenerateDownloadURL(reqKey)]>>)]
    /\ UNCHANGED <<metadata, chunks, objects, uploads, putURLs, issued>>
    /\ UNCHANGED otherVars

\* GenerateDownloadURLHandler: the request names the file by the fileID of its
\* path; whatever key it carries (reqKey) is not read. getOK: GetFileMetadata
\* succeeded; urlOK: the presigning succeeded
GenerateDownloadURLHandler(p, fileID, reqKey, getOK, urlOK) ==
    /\ Free(p)
    /\ proc' = [proc EXCEPT ![p] =
           IF ~getOK \/ fileID \notin DOMAIN metadata
           THEN Error(p, "download", fileID, "File not found", StatusNotFound)
           ELSE IF ~urlOK
           THEN Error(p, "download", fileID, "Failed to generate download URL",
                      StatusInternalServerError)
           ELSE Respond(p, "download", fileID,
                    <<[FileID |-> fileID,
                       URL |-> GenerateDownloadURL(metadata[fileID].S3Key)]>>)]
    /\ UNCHANGED <<metadata, chunks, objects, uploads, putURLs, issued>>
    /\ UNCHANGED otherVars

\* ------------------------------------------------- common.ValidateFileSize
\* mutant of ValidateFileSize: a size equal to MaxFileSize is too large
ValidateFileSize_AtLimit(size) ==
    IF size = Nil THEN <<"SIZE_REQUIRED">>
    ELSE (IF size[1] <= 0 THEN <<"INVALID_SIZE">> ELSE <<>>)
         \o (IF size[1] >= MaxFileSize THEN <<"FILE_TOO_LARGE">> ELSE <<>>)

\* ValidateFileSize: the codes of the errors it returns, in their order
ValidateFileSize(size) ==
    IF size = Nil THEN <<"SIZE_REQUIRED">>
    ELSE (IF size[1] <= 0 THEN <<"INVALID_SIZE">> ELSE <<>>)
         \o (IF size[1] > MaxFileSize THEN <<"FILE_TOO_LARGE">> ELSE <<>>)

\* a call of ValidateFileSize: the slot holds the size and the errors returned
ValidateFileSizeCall(p, size) ==
    /\ Free(p)
    /\ proc' = [proc EXCEPT ![p] =
           [Idle EXCEPT !.op = "validate", !.pc = "done", !.size = size,
                        !.body = <<[errors |-> ValidateFileSize(size)]>>]]
    /\ UNCHANGED <<metadata, chunks, objects, uploads, putURLs, issued>>
    /\ UNCHANGED otherVars

\* ------------------------------------------------- middleware.RateLimit
\* the addresses getIP returns
ClientIPs == {"10.0.0.1", "10.0.0.2"}

\* the middleware serves a new request in the first slot that is free
RLFree(p) ==
    /\ rl[p].pc = "idle"
    /\ \A q \in Procs : q < p => rl[q].pc # "idle"

\* RateLimit up to the first critical section of GetLimiter: ip := getIP(r), and
\* under the lock the look-up of i.ips[ip]. When there is no limiter the lock is
\* released before AddIP is called.
GetLimiter(p, ip) ==
    /\ RLFree(p)
    /\ rl' = [rl EXCEPT ![p] =
           IF ip \in DOMAIN ips
           THEN [RLIdle EXCEPT !.pc = "allow", !.ip = ip, !.limiter = ips[ip]]
           ELSE [RLIdle EXCEPT !.pc = "add", !.ip = ip]]
    /\ UNCHANGED <<ips, limiters>>
    /\ UNCHANGED <<fileVars, users, reg>>

\* AddIP: under the lock, a new limiter with a full burst is stored for the
\* address, whatever is stored for it
AddIP(p) ==
    /\ rl[p].pc = "add"
    /\ LET limiter == Len(limiters) + 1
       IN  /\ limiters' = Append(limiters, [ip |-> rl[p].ip, tokens |-> burst])
           /\ ips' = PutItem(ips, rl[p].ip, limiter)
           /\ rl' = [rl EXCEPT ![p] = [rl[p] EXCEPT !.pc = "allow", !.limiter = limiter]]
    /\ UNCHANGED <<fileVars, users, reg>>

\* rateLimiter.Allow(): a token of the limiter the request holds is taken, or
\* the request is refused with 429
Allow(p) ==
    /\ rl[p].pc = "allow"
    /\ LET l == rl[p].limiter
       IN  IF limiters[l].tokens > 0
           THEN /\ limiters' = [limiters EXCEPT ![l].tokens = @ - 1]
                /\ rl' = [rl EXCEPT ![p] = [rl[p] EXCEPT !.pc = "served"]]
           ELSE /\ limiters' = limiters
                /\ rl' = [rl EXCEPT ![p] = [rl[p] EXCEPT !.pc = "refused",
                                                         !.code = StatusTooManyRequests]]
    /\ UNCHANGED ips
    /\ UNCHANGED <<fileVars, users, reg>>

\* the request is over: next.ServeHTTP returned, or the 429 was written
RateLimitReturn(p) ==
    /\ rl[p].pc \in {"served", "refused"}
    /\ rl' = [rl EXCEPT ![p] = RLIdle]
    /\ UNCHANGED <<ips, limiters>>
    /\ UNCHANGED <<fileVars, users, reg>>

\* rate.Every(time.Second): a second passes and every limiter that is not full
\* gains a token
Tick ==
    /\ \E l \in DOMAIN limiters : limiters[l].tokens < burst
    /\ limiters' = [l \in DOMAIN limiters |->
                       [limiters[l] EXCEPT !.tokens = IF @ < burst THEN @ + 1 ELSE @]]
    /\ UNCHANGED <<ips, rl>>
    /\ UNCHANGED <<fileVars, users, reg>>

RateLimit(p) ==
    \/ \E ip \in ClientIPs : GetLimiter(p, ip)
    \/ AddIP(p)
    \/ Allow(p)
    \/ RateLimitReturn(p)

\* ------------------------------------------------- POST /auth/register
UserIDs == 1..MaxUsers

\* the email addresses of the requests; both pass isValidEmail
Emails == {"ann@x.io", "Ann@x.io", "bob@x.io"}

\* strings.ToLower(strings.TrimSpace(email))
NormalizeEmail(email) == IF email = "Ann@x.io" THEN "ann@x.io" ELSE email

\* DynamoClient.GetUserByEmail: the users of the email-index whose email is email
GetUserByEmail(table, email) == {u \in DOMAIN table : table[u].Email = email}

\* DynamoClient.CreateUser: PutItem under attribute_not_exists(userID)
CreateUser(table, user) ==
    IF user.UserID \in DOMAIN table
    THEN [err |-> TRUE, table |-> table]
    ELSE [err |-> FALSE, table |-> PutItem(table, user.UserID, user)]

\* a registration is served in the first slot that is free
RegFree(p) ==
    /\ reg[p].pc = "idle"
    /\ \A q \in Procs : q < p => reg[q].pc # "idle"

\* RegisterHandler up to the look-up by email: the request is refused with 409
\* when the look-up succeeds and finds a user; a look-up that fails counts as
\* "no such user"
RegisterLookup(p, email, ok) ==
    /\ RegFree(p)
    /\ reg' = [reg EXCEPT ![p] =
           IF ok /\ GetUserByEmail(users, email) # {}
           THEN [RegIdle EXCEPT !.pc = "done", !.email = email, !.code = StatusConflict]
           ELSE [RegIdle EXCEPT !.pc = "create", !.email = email]]
    /\ UNCHANGED users
    /\ UNCHANGED <<fileVars, ips, limiters, rl>>

\* RegisterHandler from uuid.New() to the response: the user is created under a
\* new userID with the normalized email; a failure of GenerateToken comes after
\* the user was created
RegisterCreate(p, ok, tokenOK) ==
    /\ reg[p].pc = "create"
    /\ \E userID \in UserIDs \ DOMAIN users :
          LET user == [UserID |-> userID, Email |-> NormalizeEmail(reg[p].email)]
              res == CreateUser(users, user)
          IN  /\ users' = IF ok THEN res.table ELSE users
              /\ reg' = [reg EXCEPT ![p] =
                     [reg[p] EXCEPT !.pc = "done",
                                    !.code = IF ok /\ ~res.err /\ tokenOK
                                             THEN StatusCreated
                                             ELSE StatusInternalServerError]]
    /\ UNCHANGED <<fileVars, ips, limiters, rl>>

\* the response has been written
RegisterReturn(p) ==
    /\ reg[p].pc = "done"
    /\ reg' = [reg EXCEPT ![p] = RegIdle]
    /\ UNCHANGED users
    /\ UNCHANGED <<fileVars, ips, limiters, rl>>

\* RegisterHandler for the requests whose email is one of emails
RegisterHandler(p, oks, emails) ==
    \/ \E email \in emails, ok \in oks : RegisterLookup(p, email, ok)
    \/ \E ok \in oks, tokenOK \in oks : RegisterCreate(p, ok, tokenOK)
    \/ RegisterReturn(p)

\* ------------------------------------------------------------------ Next
\* the requests other than plans, and the client, every store call having an
\* outcome of oks
Handlers(oks) ==
    \/ \E p \in Procs : ChunkCompletionHandler(p, oks)
    \/ \E p \in Procs : CompleteMultipartUploadHandler(p, oks)
    \/ \E p \in Procs : DeleteFileHandler(p, oks)
    \/ \E p \in Procs, fileID \in FileIDs, reqKey \in ReqKeys :
          \E getOK \in oks, urlOK \in oks :
              GenerateDownloadURLHandler(p, fileID, reqKey, getOK, urlOK)
    \/ \E p \in Procs : Return(p)
    \/ \E key \in putURLs : ClientPutObject(key)

\* the requests and the client
Requests(oks) ==
    \/ \E p \in Procs : GenerateUploadURLHandler(p, oks)
    \/ Handlers(oks)

\* every store call may fail
Next == Requests(BOOLEAN)

Spec == Init /\ [][Next]_vars

\* no store call fails
NextNoFail == Requests({TRUE})

SpecNoFail == Init /\ [][NextNoFail]_vars

\* the planning specification: plan requests of every declared size of PlanSizes
\* (every store call may fail), and the client's whole-object PUTs
NextPlan ==
    \/ \E p \in Procs : PlanRequest(p, BOOLEAN, PlanSizes, FreshUUIDs)
    \/ \E p \in Procs : Return(p)
    \/ \E key \in putURLs : ClientPutObject(key)

SpecPlan == Init /\ [][NextPlan]_vars

\* the declared sizes that are planned as multipart, up to the largest int64
Int64Sizes == {<<s>> : s \in multipartThreshold..MaxInt64}

\* the plans of every declared size an int64 holds, no store call failing
NextInt64 ==
    \/ \E p \in Procs : PlanRequest(p, {TRUE}, Int64Sizes, FreshUUIDs)
    \/ \E p \in Procs : Return(p)

SpecInt64 == Init /\ [][NextInt64]_vars

\* the collision specification: no store call fails, and uuid.New() may return an
\* id that it has returned before
NextCollide ==
    \/ \E p \in Procs : PlanRequest(p, {TRUE}, Sizes, FileIDs)
    \/ Handlers({TRUE})

SpecCollide == Init /\ [][NextCollide]_vars

\* the upload specification: multipart plans of one and of two chunks, chunk
\* reports and finalizes; no store call fails
NextUpload ==
    \/ \E p \in Procs : PlanRequest(p, {TRUE}, UploadSizes, FreshUUIDs)
    \/ \E p \in Procs : ChunkCompletionHandler(p, {TRUE})
    \/ \E p \in Procs : CompleteMultipartUploadHandler(p, {TRUE})
    \/ \E p \in Procs : Return(p)

SpecUpload == Init /\ [][NextUpload]_vars

\* the plans and the reports of chunks, none of them a report of a failed chunk
NextReport ==
    \/ \E p \in Procs : GenerateUploadURLHandler(p, BOOLEAN)
    \/ \E p \in Procs : ReportRequest(p, BOOLEAN, {"uploaded", "pending"})
    \/ \E p \in Procs : Return(p)

SpecReport == Init /\ [][NextReport]_vars

\* the validation specification: calls of ValidateFileSize
NextValidate ==
    \/ \E p \in Procs, size \in ValidateSizes : ValidateFileSizeCall(p, size)
    \/ \E p \in Procs : Return(p)

SpecValidate == Init /\ [][NextValidate]_vars

\* the requests through the rate limiter of the gateway
NextRateLimit ==
    \/ \E p \in Procs : RateLimit(p)
    \/ Tick

SpecRateLimit == Init /\ [][NextRateLimit]_vars

\* the emails that are stored as the request spells them
NormalEmails == {email \in Emails : NormalizeEmail(email) = email}

\* the registrations whose email is stored as the request spells it, no call of
\* theirs failing
NextRegister == \E p \in Procs : RegisterHandler(p, {TRUE}, NormalEmails)

SpecRegister == Init /\ [][NextRegister]_vars

\* ------------------------------------------------------------------ claims
\* no request is in flight
Quiescent == \A p \in Procs : proc[p].pc \in {"idle", "done"}

\* slot p takes a step
Steps(p) == proc'[p] # proc[p]

\* slot p starts a request of kind op
Starts(p, op) == Free(p) /\ Steps(p) /\ proc'[p].op = op

\* C1: whenever a FileMetadata row has status completed, the object under its
\* storageKey exists in the blob store (stated here for the states in which no
\* request is in flight, where it fails too)
C1_CompletedHasObject ==
    Quiescent =>
        \A f \in DOMAIN metadata :
            metadata[f].Status = "completed" => metadata[f].S3Key \in objects

\* C2: delete calls deleteObject first and deletes the FileMetadata row only after
\* deleteObject succeeded: a row disappears only in the last step of a delete, a
\* delete reaches that step only from a deleteObject after which the key holds no
\* object, and a delete whose deleteObject failed answers with an error and leaves
\* the metadata (what a following get returns) as it was
C2_DeleteObjectFirst ==
    [][ /\ \A f \in DOMAIN metadata :
              f \notin DOMAIN metadata' =>
                  \E p \in Procs : /\ proc[p].op = "delete"
                                   /\ proc[p].pc = "del_meta"
                                   /\ proc[p].fileID = f
                                   /\ Steps(p)
        /\ \A p \in Procs :
              (proc'[p].pc = "del_meta" /\ Steps(p)) =>
                  /\ proc[p].pc = "del_s3"
                  /\ proc[p].md[1].S3Key \notin objects'
        /\ \A p \in Procs :
              (proc[p].pc = "del_s3" /\ Steps(p) /\ proc'[p].pc # "del_meta") =>
                  /\ proc'[p].pc = "done"
                  /\ proc'[p].code = StatusInternalServerError
                  /\ metadata' = metadata
      ]_vars

\* C2 witness: a delete has failed in deleteObject: the record and its object are there
C2_Witness ==
    \E p \in Procs :
        /\ Done(p)
        /\ proc[p].op = "delete"
        /\ proc[p].msg = "Failed to delete file from storage"
        /\ proc[p].fileID \in DOMAIN metadata
        /\ metadata[proc[p].fileID].S3Key \in objects

\* C3: finalize is idempotent: a finalize that finds the record completed by a first
\* finalize and all chunks uploaded returns success (no store call failing)
C3_SecondFinalizeSucceeds ==
    [][ \A p \in Procs :
          ( /\ proc[p].op = "finalize"
            /\ proc[p].pc = "fin_merge"
            /\ proc[p].md[1].Status = "completed"
            /\ Steps(p)
            /\ proc'[p].pc = "done" ) => proc'[p].code = StatusOK
      ]_vars

\* C4: whenever finalize returns success, the stored FileMetadata row has status
\* completed and completedAt set
C4_SuccessMeansCompleted ==
    [][ \A p \in Procs :
          ( /\ proc[p].op = "finalize"
            /\ Steps(p)
            /\ proc'[p].pc = "done"
            /\ proc'[p].code = StatusOK ) =>
              /\ proc[p].fileID \in DOMAIN metadata'
              /\ metadata'[proc[p].fileID].Status = "completed"
              /\ metadata'[proc[p].fileID].CompletedAt # Nil
      ]_vars

\* C5: if the blob-store merge fails during finalize (the step of the merge leaves
\* the multipart upload as it was), finalize returns an error and the FileMetadata
\* rows are left unchanged: a row that was uploading still is
C5_MergeFailureLeavesMetadata ==
    [][ \A p \in Procs :
          ( /\ proc[p].op = "finalize"
            /\ proc[p].pc = "fin_merge"
            /\ Steps(p)
            /\ uploads' = uploads ) =>
              /\ proc'[p].pc = "done"
              /\ proc'[p].code = StatusInternalServerError
              /\ metadata' = metadata
              /\ \A f \in DOMAIN metadata :
                    metadata[f].Status = "uploading" => metadata'[f].Status = "uploading"
      ]_vars

\* C5 witness: a finalize has failed in the merge; the record is uploading and the
\* multipart upload still open
C5_Witness ==
    \E p \in Procs :
        /\ Done(p)
        /\ proc[p].op = "finalize"
        /\ proc[p].msg = "Failed to complete upload"
        /\ proc[p].fileID \in DOMAIN metadata
        /\ metadata[proc[p].fileID].Status = "uploading"
        /\ uploads[metadata[proc[p].fileID].S3UploadID[1]].State = "open"

\* C6: finalize of an upload that is not multipart, or whose chunks are not all
\* uploaded, returns a client error (400), never asks for the merge, and leaves the
\* FileMetadata and FileChunk rows (and the bucket) unchanged
C6_ConflictLeavesStores ==
    [][ \A p \in Procs :
          /\ ( /\ Starts(p, "finalize")
               /\ proc'[p].msg # "File not found"
               /\ \/ metadata[proc'[p].fileID].UploadType # "multipart"
                  \/ metadata[proc'[p].fileID].S3UploadID = Nil ) =>
                 /\ proc'[p].pc = "done"
                 /\ proc'[p].code = StatusBadRequest
                 /\ UNCHANGED <<metadata, chunks, objects, uploads>>
          /\ ( /\ proc[p].op = "finalize"
               /\ proc[p].pc = "fin_check"
               /\ Steps(p)
               /\ proc'[p].msg # "Failed to check upload status"
               /\ ~CheckUploadComplete(chunks, proc[p].fileID).complete ) =>
                 /\ proc'[p].pc = "done"
                 /\ proc'[p].code = StatusBadRequest
                 /\ UNCHANGED <<metadata, chunks, objects, uploads>>
      ]_vars

\* C6 witness: a finalize was refused while a chunk of the multipart upload is not
\* uploaded, and the record is still uploading
C6_Witness ==
    \E p \in Procs :
        /\ Done(p)
        /\ proc[p].op = "finalize"
        /\ proc[p].code = StatusBadRequest
        /\ proc[p].msg = "Not all chunks are uploaded yet"
        /\ proc[p].fileID \in DOMAIN metadata
        /\ metadata[proc[p].fileID].Status = "uploading"
        /\ \E k \in DOMAIN chunks : k[1] = proc[p].fileID /\ chunks[k].Status = "uploaded"
        /\ \E k \in DOMAIN chunks : k[1] = proc[p].fileID /\ chunks[k].Status = "pending"

\* C7: finalize asks the blob store for the merge only when the status of the
\* FileMetadata row it read is uploading
C7_MergeOnlyWhenUploading ==
    [][ \A p \in Procs :
          (proc[p].op = "finalize" /\ proc[p].pc = "fin_merge" /\ Steps(p)) =>
              proc[p].md[1].Status = "uploading"
      ]_vars

\* C8: for a multipart upload, checkComplete is true exactly when its planned
\* totalChunks is > 0 and every chunk 1..totalChunks has a row with status uploaded
C8_CompleteIffAllPlannedUploaded ==
    \A f \in DOMAIN metadata :
        metadata[f].UploadType = "multipart" =>
            ( CheckUploadComplete(chunks, f).complete
              <=> /\ metadata[f].TotalChunks[1] > 0
                  /\ \A c \in 1..metadata[f].TotalChunks[1] :
                        /\ <<f, c>> \in DOMAIN chunks
                        /\ chunks[<<f, c>>].Status = "uploaded" )

\* C9: reportChunk is last-writer-wins: a report that is not rejected leaves the
\* chunk with the reported status, whatever it was, so that checkComplete is false
\* after a report of failed; and the status of a chunk changes in no other way
C9_LastWriterWins ==
    [][ /\ \A p \in Procs :
              (Starts(p, "report") /\ proc'[p].pc = "rep_check") =>
                  LET k == <<proc'[p].fileID, proc'[p].chunkNumber>>
                  IN  /\ k \in DOMAIN chunks'
                      /\ chunks'[k].Status = proc'[p].reqStatus
                      /\ proc'[p].reqStatus = "failed" =>
                            ~CheckUploadComplete(chunks', proc'[p].fileID).complete
        /\ \A k \in DOMAIN chunks :
              (k \notin DOMAIN chunks' \/ chunks'[k].Status # chunks[k].Status) =>
                  \E p \in Procs :
                      /\ Starts(p, "report")
                      /\ proc'[p].pc = "rep_check"
                      /\ k = <<proc'[p].fileID, proc'[p].chunkNumber>>
      ]_vars

\* C9 witness: a chunk that was uploaded (it has its etag) has just been reported
\* failed, and is failed
C9_Witness ==
    \E p \in Procs :
        /\ proc[p].op = "report"
        /\ proc[p].pc = "rep_check"
        /\ proc[p].reqStatus = "failed"
        /\ chunks[<<proc[p].fileID, proc[p].chunkNumber>>].ETag # NoETag
        /\ chunks[<<proc[p].fileID, proc[p].chunkNumber>>].Status = "failed"
        /\ ~CheckUploadComplete(chunks, proc[p].fileID).complete

\* C10: a report for a pair that has no FileChunk row does not get past the update
\* of the chunk, and FileChunk rows are created by plan only
C10_UnknownChunkNotFound ==
    [][ /\ \A p \in Procs :
              (Starts(p, "report") /\ proc'[p].pc = "rep_check") =>
                  <<proc'[p].fileID, proc'[p].chunkNumber>> \in DOMAIN chunks
        /\ DOMAIN chunks' # DOMAIN chunks =>
              \E p \in Procs : Starts(p, "plan")
      ]_vars

\* the answer of a plan that starts in slot p in this step
PlanBody(p) == proc'[p].body[1]

\* a plan starts in slot p in this step and answers with success
PlanSucceeds(p) == Starts(p, "plan") /\ proc'[p].code = StatusOK

\* the chunk numbers of the FileChunk rows of fileID in table
ChunkRowsOf(table, fileID) == {k[2] : k \in {q \in DOMAIN table : q[1] = fileID}}

RECURSIVE SumSizes(_)
SumSizes(cs) == IF cs = <<>> THEN 0 ELSE cs[1].Size + SumSizes(Tail(cs))

\* C11: a plan whose declared size is absent or < 5 GiB is single (one whole-object
\* write grant, no chunk grants, no FileChunk rows); a plan whose declared size is
\* >= 5 GiB is multipart
C11_ThresholdChoosesPlan ==
    [][ \A p \in Procs :
          PlanSucceeds(p) =>
              IF proc'[p].size = Nil \/ proc'[p].size[1] < multipartThreshold
              THEN /\ PlanBody(p).UploadType = "single"
                   /\ PlanBody(p).URL # Nil
                   /\ PlanBody(p).Chunks = <<>>
                   /\ ChunkRowsOf(chunks', proc'[p].fileID) = {}
              ELSE /\ PlanBody(p).UploadType = "multipart"
                   /\ PlanBody(p).URL = Nil
                   /\ PlanBody(p).Chunks # <<>>
      ]_vars

\* C11 witness: a plan of exactly 5 GiB was answered with a multipart plan
C11_Witness ==
    \E p \in Procs :
        /\ Done(p)
        /\ proc[p].op = "plan"
        /\ proc[p].code = StatusOK
        /\ proc[p].size = <<multipartThreshold>>
        /\ proc[p].body[1].UploadType = "multipart"
        /\ Len(proc[p].body[1].Chunks) = 1

\* C12: a multipart plan of declared size s has totalChunks = ceil(s / chunkSize);
\* its grants and its FileChunk rows carry the chunk numbers 1..totalChunks, each
\* once; every chunk but the last has the size chunkSize and the last
\* s - (totalChunks-1)*chunkSize, which is in 1..chunkSize; the sizes sum to s
C12_ChunkLayout ==
    [][ \A p \in Procs :
          (PlanSucceeds(p) /\ PlanBody(p).UploadType = "multipart") =>
              LET s == proc'[p].size[1]
                  f == proc'[p].fileID
                  cs == PlanBody(p).Chunks
                  n == Len(cs)
                  last == s - (n - 1) * chunkSizeConst
              IN  /\ n * chunkSizeConst >= s
                  /\ (n - 1) * chunkSizeConst < s
                  /\ \A i \in 1..n : cs[i].ChunkNumber = i /\ cs[i].URL.PartNumber = i
                  /\ \A i \in 1..(n - 1) : cs[i].Size = chunkSizeConst
                  /\ cs[n].Size = last
                  /\ 0 < last /\ last <= chunkSizeConst
                  /\ SumSizes(cs) = s
                  /\ ChunkRowsOf(chunks', f) = 1..n
                  /\ \A i \in ChunkRowsOf(chunks', f) :
                        /\ chunks'[<<f, i>>].ChunkNumber = i
                        /\ chunks'[<<f, i>>].Size = cs[i].Size
      ]_vars

\* C13: a plan that returns success has created the FileMetadata row of its fileID
\* (status uploading) and, if multipart, the FileChunk rows 1..totalChunks, all
\* pending (none if single)
C13_SuccessfulPlanWroteRows ==
    [][ \A p \in Procs :
          PlanSucceeds(p) =>
              LET f == proc'[p].fileID
              IN  /\ f \notin DOMAIN metadata
                  /\ DOMAIN metadata' = DOMAIN metadata \cup {f}
                  /\ metadata'[f].Status = "uploading"
                  /\ ChunkRowsOf(chunks', f) = 1..Len(PlanBody(p).Chunks)
                  /\ \A i \in ChunkRowsOf(chunks', f) : chunks'[<<f, i>>].Status = "pending"
      ]_vars

\* C14: a multipart plan for which S3 allocates no multipart upload fails with a
\* server error and has written no FileMetadata row and no FileChunk row
C14_NoSessionNoRows ==
    [][ \A p \in Procs :
          (Starts(p, "plan") /\ shouldUseMultipart(proc'[p].size) /\ uploads' = uploads) =>
              /\ proc'[p].pc = "done"
              /\ proc'[p].code = StatusInternalServerError
              /\ proc'[p].body = Nil
              /\ metadata' = metadata
              /\ chunks' = chunks
      ]_vars

\* C14 witness: a multipart plan has failed to initiate its multipart upload: there
\* is no upload, no record and no chunk
C14_Witness ==
    \E p \in Procs :
        /\ Done(p)
        /\ proc[p].op = "plan"
        /\ proc[p].msg = "failed to initiate multipart upload"
        /\ shouldUseMultipart(proc[p].size)
        /\ uploads = <<>>
        /\ metadata = <<>>
        /\ chunks = <<>>

\* C15: no step of a chunk report changes a FileMetadata row or the bucket (no merge
\* is asked for), and the status of a row leaves uploading in a step of a finalize only
C15_ReportLeavesMetadata ==
    [][ /\ \A p \in Procs :
              (Steps(p) /\ (proc[p].op = "report" \/ proc'[p].op = "report")) =>
                  UNCHANGED <<metadata, uploads, objects>>
        /\ \A f \in DOMAIN metadata \cap DOMAIN metadata' :
              (metadata[f].Status = "uploading" /\ metadata'[f].Status # "uploading") =>
                  \E p \in Procs : proc[p].op = "finalize" /\ Steps(p)
      ]_vars

\* C15 witness: a report has answered that the upload is complete; the record is
\* uploading and the multipart upload open
C15_Witness ==
    \E p \in Procs :
        /\ Done(p)
        /\ proc[p].op = "report"
        /\ proc[p].code = StatusOK
        /\ proc[p].body[1].upload_complete
        /\ proc[p].fileID \in DOMAIN metadata
        /\ metadata[proc[p].fileID].Status = "uploading"
        /\ metadata[proc[p].fileID].UploadType = "multipart"
        /\ uploads[metadata[proc[p].fileID].S3UploadID[1]].State = "open"

\* C16: a chunk report is idempotent: after a report has updated a chunk, the same
\* report applied once more leaves the status and the etag of the chunk, and the
\* result of CheckUploadComplete, as they are
C16_ReportIdempotent ==
    [][ \A p \in Procs :
          (Starts(p, "report") /\ proc'[p].pc = "rep_check") =>
              LET f == proc'[p].fileID
                  c == proc'[p].chunkNumber
                  st == proc'[p].reqStatus
              IN  \A etag \in ReqETags(c) :
                      chunks' = UpdateChunkStatus(chunks, f, c, st, etag) =>
                          LET again == UpdateChunkStatus(chunks', f, c, st, etag)
                          IN  /\ again[<<f, c>>].Status = chunks'[<<f, c>>].Status
                              /\ again[<<f, c>>].ETag = chunks'[<<f, c>>].ETag
                              /\ CheckUploadComplete(again, f) =
                                     CheckUploadComplete(chunks', f)
      ]_vars

\* C16 witness: a report of uploaded for a chunk has been answered, and the same
\* report has updated the chunk once more
C16_Witness ==
    \E p, q \in Procs :
        /\ Done(q)
        /\ proc[q].op = "report"
        /\ proc[q].code = StatusOK
        /\ proc[q].body[1].status = "uploaded"
        /\ proc[p].op = "report"
        /\ proc[p].pc = "rep_check"
        /\ proc[p].reqStatus = "uploaded"
        /\ proc[p].fileID = proc[q].fileID
        /\ proc[p].chunkNumber = proc[q].body[1].chunk_number
        /\ chunks[<<proc[p].fileID, proc[p].chunkNumber>>].Status = "uploaded"
        /\ chunks[<<proc[p].fileID, proc[p].chunkNumber>>].ETag # NoETag

\* C17: the status of a FileMetadata row changes from uploading to completed or to
\* failed only, and a row is created with status uploading for a new fileID only:
\* a row that was completed or failed is never uploading afterwards
C17_StatusNeverBackToUploading ==
    [][ /\ \A f \in DOMAIN metadata \cap DOMAIN metadata' :
              metadata'[f].Status # metadata[f].Status =>
                  /\ metadata[f].Status = "uploading"
                  /\ metadata'[f].Status \in {"completed", "failed"}
        /\ \A f \in DOMAIN metadata' \ DOMAIN metadata :
              metadata'[f].Status = "uploading" => f \notin issued
      ]_vars

\* C17 witness: the record is completed while another finalize, which read it
\* when it was uploading, is about to ask for the merge
C17_Witness ==
    \E p \in Procs :
        /\ proc[p].op = "finalize"
        /\ proc[p].pc = "fin_merge"
        /\ proc[p].md[1].Status = "uploading"
        /\ proc[p].fileID \in DOMAIN metadata
        /\ metadata[proc[p].fileID].Status = "completed"

\* the FileChunk rows of table that a plan wrote
PlannedRows(table) == {k \in DOMAIN table : table[k].S3PartNumber = k[2]}

\* C18: the status of a FileChunk row that a plan created is never reverted: once
\* it is uploaded or failed it keeps its status
C18_ChunkStatusNeverReverted ==
    [][ \A k \in PlannedRows(chunks) \cap DOMAIN chunks' :
          chunks[k].Status \in {"uploaded", "failed"} =>
              chunks'[k].Status = chunks[k].Status
      ]_vars

\* C19: a FileChunk row that a plan created carries an etag only if its status is
\* uploaded
C19_ETagOnlyIfUploaded ==
    \A k \in PlannedRows(chunks) :
        chunks[k].ETag # NoETag => chunks[k].Status = "uploaded"

\* C20: a download URL is presigned for the S3Key of the FileMetadata row of the
\* fileID of the request, whatever key the request carries; when there is no row
\* the answer is 404 and carries no URL
C20_DownloadKeyFromMetadata ==
    [][ \A p \in Procs :
          Starts(p, "download") =>
              IF proc'[p].fileID \in DOMAIN metadata
              THEN /\ proc'[p].code = StatusOK => proc'[p].body # Nil
                   /\ proc'[p].body # Nil =>
                         /\ proc'[p].body[1].URL.Key = metadata[proc'[p].fileID].S3Key
                         /\ proc'[p].body[1].FileID = proc'[p].fileID
              ELSE /\ proc'[p].code = StatusNotFound
                   /\ proc'[p].body = Nil
      ]_vars

\* C20 witness: a download URL has been returned for the key of the record
C20_Witness ==
    \E p \in Procs :
        /\ Done(p)
        /\ proc[p].op = "download"
        /\ proc[p].code = StatusOK
        /\ proc[p].fileID \in DOMAIN metadata
        /\ proc[p].body[1].URL.Key = metadata[proc[p].fileID].S3Key

\* C21: a plan request with a missing filename or a declared size <= 0 is rejected
\* with a validation error (400) and has made no store call: no id, URL, multipart
\* upload, FileMetadata row or FileChunk row
C21_InvalidPlanRejected ==
    [][ \A p \in Procs :
          ( /\ Starts(p, "plan")
            /\ \/ proc'[p].msg = "filename is required"
               \/ (proc'[p].size # Nil /\ proc'[p].size[1] <= 0) ) =>
              /\ proc'[p].code = StatusBadRequest
              /\ proc'[p].body = Nil
              /\ UNCHANGED <<metadata, chunks, objects, uploads, putURLs, issued>>
      ]_vars

\* C22: the FileMetadata write of a plan is a create-if-absent: a plan whose fileID
\* has a row already leaves the rows as they are
C22_PlanCreatesIfAbsent ==
    [][ \A p \in Procs :
          (Starts(p, "plan") /\ proc'[p].fileID \in DOMAIN metadata) =>
              metadata' = metadata
      ]_vars

\* C23: with no store failure, for a multipart upload: CheckUploadComplete is false
\* while a chunk of 1..totalChunks is unreported, and true once every chunk of
\* 1..totalChunks is uploaded (the part of the claim that a finalize then leaves
\* the record completed follows from the second)
C23_CompleteTracksReports ==
    \A f \in DOMAIN metadata :
        metadata[f].UploadType = "multipart" =>
            LET n == metadata[f].TotalChunks[1]
                reported(c) == <<f, c>> \in DOMAIN chunks /\ chunks[<<f, c>>].Status # "pending"
                uploaded(c) == <<f, c>> \in DOMAIN chunks /\ chunks[<<f, c>>].Status = "uploaded"
            IN  /\ (\E c \in 1..n : ~reported(c)) => ~CheckUploadComplete(chunks, f).complete
                /\ (\A c \in 1..n : uploaded(c)) => CheckUploadComplete(chunks, f).complete

\* C24: a plan whose FileMetadata write fails after S3 has given the URL or the
\* multipart upload rolls nothing back: it answers 200 with its grants, the
\* multipart upload and the FileChunk rows written stay, no FileMetadata row names
\* them; and a finalize of a fileID that has no row answers 404
C24_NoRollback ==
    [][ \A p \in Procs :
          /\ ( /\ Starts(p, "plan")
               /\ issued' # issued
               /\ metadata' = metadata
               /\ proc'[p].msg # "failed to generate chunk upload URL" ) =>
                 /\ proc'[p].code = StatusOK
                 /\ LET f == proc'[p].fileID
                        b == proc'[p].body[1]
                    IN  /\ f \notin DOMAIN metadata'
                        /\ IF b.UploadType = "multipart"
                           THEN /\ b.Chunks # <<>>
                                /\ f \in DOMAIN uploads'
                                /\ uploads'[f].State = "open"
                                /\ ChunkRowsOf(chunks', f) \subseteq 1..Len(b.Chunks)
                           ELSE /\ b.URL # Nil
                                /\ b.URL[1] \in putURLs'
          /\ (Starts(p, "finalize") /\ proc'[p].fileID \notin DOMAIN metadata) =>
                 /\ proc'[p].pc = "done"
                 /\ proc'[p].code = StatusNotFound
      ]_vars

\* C24 witness: a finalize was answered 404 for a fileID that has an open multipart
\* upload and FileChunk rows, and no FileMetadata row
C24_Witness ==
    \E p \in Procs :
        /\ Done(p)
        /\ proc[p].op = "finalize"
        /\ proc[p].code = StatusNotFound
        /\ proc[p].fileID \notin DOMAIN metadata
        /\ proc[p].fileID \in DOMAIN uploads
        /\ uploads[proc[p].fileID].State = "open"
        /\ ChunkRowsOf(chunks, proc[p].fileID) # {}

\* C25: no step of a delete changes a FileChunk row: after a successful delete of a
\* multipart upload its chunk rows are still there
C25_DeleteLeavesChunks ==
    [][ \A p \in Procs :
          (Steps(p) /\ (proc[p].op = "delete" \/ proc'[p].op = "delete")) =>
              chunks' = chunks
      ]_vars

\* C25 witness: a delete has succeeded: the record is gone, the chunk rows that the
\* plan wrote are there
C25_Witness ==
    \E p \in Procs :
        /\ Done(p)
        /\ proc[p].op = "delete"
        /\ proc[p].code = StatusOK
        /\ proc[p].fileID \notin DOMAIN metadata
        /\ \E k \in PlannedRows(chunks) : k[1] = proc[p].fileID

\* C26: ValidateFileSize returns no error exactly when the size is present and
\* 0 < size <= MaxFileSize; for an absent size exactly SIZE_REQUIRED, for a size
\* <= 0 exactly INVALID_SIZE, for a size > MaxFileSize exactly FILE_TOO_LARGE
C26_ValidateFileSize ==
    \A p \in Procs :
        proc[p].op = "validate" =>
            LET size == proc[p].size
                errors == proc[p].body[1].errors
            IN  /\ errors = <<>> <=> (size # Nil /\ 0 < size[1] /\ size[1] <= MaxFileSize)
                /\ size = Nil => errors = <<"SIZE_REQUIRED">>
                /\ (size # Nil /\ size[1] <= 0) => errors = <<"INVALID_SIZE">>
                /\ (size # Nil /\ size[1] > MaxFileSize) => errors = <<"FILE_TOO_LARGE">>

\* C26 witness: a size of exactly MaxFileSize was validated with no error
C26_Witness ==
    \E p \in Procs :
        /\ proc[p].op = "validate"
        /\ proc[p].size = <<MaxFileSize>>
        /\ proc[p].body[1].errors = <<>>

\* C27: the parts that finalize sends to the merge are one (PartNumber, ETag) pair
\* for each chunk 1..totalChunks of the plan, in ascending order, and the merge is
\* asked for the S3Key and the S3UploadID of the FileMetadata row
C27_PartsAreThePlannedChunks ==
    [][ \A p \in Procs :
          (proc[p].op = "finalize" /\ proc[p].pc = "fin_merge" /\ Steps(p)) =>
              LET md == proc[p].md[1]
                  parts == CompletedParts(proc[p].chunks)
              IN  /\ Len(parts) = md.TotalChunks[1]
                  /\ \A i \in 1..Len(parts) :
                        /\ parts[i].PartNumber = i
                        /\ parts[i].ETag = proc[p].chunks[i].ETag
                  /\ uploads' # uploads =>
                        /\ uploads'[md.S3UploadID[1]].State = "completed"
                        /\ md.S3Key \in objects'
      ]_vars

\* C28: the S3Key of a FileMetadata row is the key of its fileID and filename
\* (fileID + "-" + filename), and no step changes the S3Key of a row
C28_S3KeyFixed ==
    [][ /\ \A f \in DOMAIN metadata' :
              /\ metadata'[f].FileID = f
              /\ metadata'[f].S3Key = S3KeyOf(f, metadata'[f].Filename)
        /\ \A f \in DOMAIN metadata \cap DOMAIN metadata' :
              metadata'[f].S3Key = metadata[f].S3Key
      ]_vars

\* C28 witness: a finalize has rewritten the record: it is completed and has the
\* key the plan gave it, under which the object is
C28_Witness ==
    \E f \in DOMAIN metadata :
        /\ metadata[f].Status = "completed"
        /\ metadata[f].S3Key = S3KeyOf(f, metadata[f].Filename)
        /\ metadata[f].S3Key \in objects

\* C29: a FileMetadata row has S3UploadID, ChunkSize and TotalChunks if and only
\* if its UploadType is multipart: all three for multipart, none for single
C29_MultipartFieldsIffMultipart ==
    \A f \in DOMAIN metadata :
        IF metadata[f].UploadType = "multipart"
        THEN /\ metadata[f].S3UploadID # Nil
             /\ metadata[f].ChunkSize # Nil
             /\ metadata[f].TotalChunks # Nil
        ELSE /\ metadata[f].UploadType = "single"
             /\ metadata[f].S3UploadID = Nil
             /\ metadata[f].ChunkSize = Nil
             /\ metadata[f].TotalChunks = Nil

\* C29 witness: a multipart record that finalize has rewritten has the three fields
C29_Witness ==
    \E f \in DOMAIN metadata :
        /\ metadata[f].UploadType = "multipart"
        /\ metadata[f].Status = "completed"
        /\ metadata[f].S3UploadID # Nil
        /\ metadata[f].ChunkSize # Nil
        /\ metadata[f].TotalChunks # Nil

\* C30: whenever a FileMetadata row is completed, every FileChunk row that the plan
\* wrote for the file is uploaded
C30_CompletedHasAllUploaded ==
    \A f \in DOMAIN metadata :
        metadata[f].Status = "completed" =>
            \A k \in PlannedRows(chunks) : k[1] = f => chunks[k].Status = "uploaded"

\* C31: once the FileMetadata row of an issued fileID is gone it stays gone: no
\* step of a finalize (or of any other request) running beside the delete puts
\* the row back, so a later get answers 404
C31_DeletedStaysDeleted ==
    [][ \A f \in issued :
          f \notin DOMAIN metadata => f \notin DOMAIN metadata'
      ]_vars

\* C32: a FileChunk row that a plan created and whose status is uploaded carries
\* an etag
C32_UploadedHasETag ==
    \A k \in PlannedRows(chunks) :
        chunks[k].Status = "uploaded" => chunks[k].ETag # NoETag

\* C35: every FileMetadata row is uploading or completed, never failed
C35_MetadataNeverFailed ==
    \A f \in DOMAIN metadata : metadata[f].Status \in {"uploading", "completed"}

\* a finalize was refused because a chunk of the file is failed, and the record
\* is still uploading
C35_Witness ==
    \E p \in Procs, k \in DOMAIN chunks :
        /\ Done(p)
        /\ proc[p].op = "finalize"
        /\ proc[p].code = StatusBadRequest
        /\ k[1] = proc[p].fileID
        /\ chunks[k].Status = "failed"
        /\ proc[p].fileID \in DOMAIN metadata
        /\ metadata[proc[p].fileID].Status = "uploading"

\* C36: a FileChunk row that has been reported (uploaded or failed) never returns
\* to pending; a report whose status is neither uploaded nor failed is refused
\* and changes no row; and an existing row changes only in the step of a report
\* of that chunk with status uploaded or failed
C36_ReportedNeverPending ==
    [][ /\ \A k \in DOMAIN chunks :
             /\ k \in DOMAIN chunks'
             /\ chunks[k].Status \in {"uploaded", "failed"} =>
                   chunks'[k].Status \in {"uploaded", "failed"}
             /\ chunks'[k] # chunks[k] =>
                   \E p \in Procs :
                       /\ Starts(p, "report")
                       /\ proc'[p].pc = "rep_check"
                       /\ <<proc'[p].fileID, proc'[p].chunkNumber>> = k
                       /\ proc'[p].reqStatus \in {"uploaded", "failed"}
        /\ \A p \in Procs :
             Starts(p, "report") /\ proc'[p].code = StatusBadRequest =>
                 chunks' = chunks
      ]_vars

\* a report with another status has been refused while a row of the file is
\* uploaded
C36_Witness ==
    \E p \in Procs, k \in DOMAIN chunks :
        /\ Done(p)
        /\ proc[p].op = "report"
        /\ proc[p].code = StatusBadRequest
        /\ proc[p].msg = "Status must be 'uploaded' or 'failed'"
        /\ k[1] = proc[p].fileID
        /\ chunks[k].Status = "uploaded"

\* C34: a plan of a declared size s that is accepted as multipart
\* (multipartThreshold <= s <= MaxInt64) succeeds with totalChunks >= 1 chunks,
\* totalChunks = ceil(s / chunkSize), and records that count
C34_TotalChunksNoOverflow ==
    [][ \A p \in Procs :
          ( /\ Starts(p, "plan")
            /\ proc'[p].size # Nil
            /\ proc'[p].size[1] >= multipartThreshold ) =>
              /\ proc'[p].code = StatusOK
              /\ LET s == proc'[p].size[1]
                     n == Len(PlanBody(p).Chunks)
                 IN  /\ n >= 1
                     /\ n * chunkSizeConst >= s
                     /\ (n - 1) * chunkSizeConst < s
                     /\ metadata'[proc'[p].fileID].TotalChunks = <<n>>
      ]_vars

\* the report of slot p has been answered 200 for a chunk reported uploaded
ReportedUploaded(p) ==
    /\ Done(p)
    /\ proc[p].op = "report"
    /\ proc[p].code = StatusOK
    /\ proc[p].body[1].status = "uploaded"

\* two reports running side by side have been answered for the two chunks that
\* are all the chunks of one file, and the chunks of the file are now complete
BothReported(p, q) ==
    /\ p # q
    /\ ReportedUploaded(p)
    /\ ReportedUploaded(q)
    /\ proc[p].fileID = proc[q].fileID
    /\ proc[p].body[1].chunk_number # proc[q].body[1].chunk_number
    /\ ChunkRowsOf(chunks, proc[p].fileID) =
           {proc[p].body[1].chunk_number, proc[q].body[1].chunk_number}
    /\ CheckUploadComplete(chunks, proc[p].fileID).complete

C37_OneLimiterPerAddress ==
    /\ \A i \in DOMAIN limiters, j \in DOMAIN limiters :
          limiters[i].ip = limiters[j].ip => i = j
    /\ \A p \in Procs :
          rl[p].pc = "allow" => ips[rl[p].ip] = rl[p].limiter

\* C38: no two users have the same email: of the registrations of one email, run
\* one after the other or side by side, at most one creates a user
C38_EmailsUnique ==
    \A u \in DOMAIN users, v \in DOMAIN users :
        users[u].Email = users[v].Email => u = v

====
